---- MODULE Spec2Model ----
(***************************************************************************)
(* urlcheck: a command-line URL checker.  One run of the program: the      *)
(* flags are parsed, cobra runs the root command's persistent pre-run      *)
(* hook, and then either `check <url>` calls checkURL once, or             *)
(* `list <file>` calls checkURLs, which starts one goroutine per URL, each *)
(* running checkURL and sending its result on a buffered channel.          *)
(*                                                                         *)
(* Text that the program inspects (response bodies, the keyword) is a      *)
(* sequence of one-character strings.  Time is in milliseconds.            *)
(***************************************************************************)
EXTENDS Integers, Sequences, FiniteSets, TLC

\* ---------------------------------------------------------------- bounds
\* Longest URL list read from the file of `list`.
MaxUrls == 2
\* Largest value given to --retries with `check`.
MaxRetries == 3
\* Largest value given to --retries with `list`.
MaxListRetries == 1

\* ------------------------------------------------------ program constants
\* time.Duration(attempt+1) * 500 * time.Millisecond
BackoffUnitMs == 500

\* ----------------------------------------------------------------- text
LowerRune(c) ==
  CASE c = "H" -> "h"
    [] c = "E" -> "e"
    [] c = "L" -> "l"
    [] c = "O" -> "o"
    [] OTHER -> c

\* strings.ToLower
ToLower(s) == [j \in 1..Len(s) |-> LowerRune(s[j])]

\* strings.Contains
Contains(s, substr) ==
  \E k \in 0..(Len(s) - Len(substr)) :
    \A j \in 1..Len(substr) : s[k + j] = substr[j]

\* The search with the case of both texts left as it is.
KeywordMatchCaseSensitive(body, keyword) == Contains(body, keyword)

\* strings.Contains(strings.ToLower(string(body)), strings.ToLower(keyword))
KeywordMatch(body, keyword) == Contains(ToLower(body), ToLower(keyword))

\* The values of --keyword that are tried; <<>> is the default "".
Keywords == { <<>>, <<"E", "l">>, <<"x">> }

\* ----------------------------------------------------------------- URLs
\* url.Parse on the URL strings that are tried: whether it fails, and the
\* Scheme (which url.Parse lower-cases) and Host of the parsed URL.
ParseURL(rawURL) ==
  CASE rawURL = "://bad"     -> [fails |-> TRUE,  Scheme |-> "",      Host |-> ""]
    [] rawURL = "ftp://host" -> [fails |-> FALSE, Scheme |-> "ftp",   Host |-> "host"]
    [] rawURL = "ftp://"     -> [fails |-> FALSE, Scheme |-> "ftp",   Host |-> ""]
    [] rawURL = "http://"    -> [fails |-> FALSE, Scheme |-> "http",  Host |-> ""]
    [] rawURL = "http://a"   -> [fails |-> FALSE, Scheme |-> "http",  Host |-> "a"]
    [] rawURL = "https://b"  -> [fails |-> FALSE, Scheme |-> "https", Host |-> "b"]
    [] rawURL = "https://c"  -> [fails |-> FALSE, Scheme |-> "https", Host |-> "c"]
    [] rawURL = "HTTP://a"   -> [fails |-> FALSE, Scheme |-> "http",  Host |-> "a"]
    [] OTHER                 -> [fails |-> FALSE, Scheme |-> "",      Host |-> ""]

\* The argument of `check`.
CheckURLs ==
  { "", "://bad", "ftp://host", "ftp://", "http://", "http://a", "https://b", "https://c",
    "HTTP://a", "a.com" }

\* The lines of the file of `list`: readURLs trims them and drops the empty ones.
ListURLs == { "ftp://host", "https://b", "https://c" }

NoError == [msg |-> "", attempts |-> 0, cause |-> ""]

\* The validator with the host looked at before the scheme.
ValidateURLHostFirst(rawURL) ==
  IF rawURL = "" THEN [NoError EXCEPT !.msg = "URL is empty"]
  ELSE LET u == ParseURL(rawURL) IN
    IF u.fails THEN [NoError EXCEPT !.msg = "invalid URL: %v", !.cause = "parse"]
    ELSE IF u.Host = "" THEN [NoError EXCEPT !.msg = "URL must have a valid host"]
    ELSE IF u.Scheme # "http" /\ u.Scheme # "https"
      THEN [NoError EXCEPT !.msg = "URL must use http or https scheme"]
    ELSE NoError

\* validateURL: the error it returns, NoError for nil.
ValidateURL(rawURL) ==
  IF rawURL = "" THEN [NoError EXCEPT !.msg = "URL is empty"]
  ELSE LET u == ParseURL(rawURL) IN
    IF u.fails THEN [NoError EXCEPT !.msg = "invalid URL: %v", !.cause = "parse"]
    ELSE IF u.Scheme # "http" /\ u.Scheme # "https"
      THEN [NoError EXCEPT !.msg = "URL must use http or https scheme"]
    ELSE IF u.Host = "" THEN [NoError EXCEPT !.msg = "URL must have a valid host"]
    ELSE NoError

\* -------------------------------------------------------------- network
\* What c.client.Get and io.ReadAll can meet at each host: the transport
\* errors, the status codes of the responses, the bodies, whether reading
\* the body can fail, and how long a GET takes.
Network(host) ==
  CASE host = "a" -> [errors |-> {"timeout", "refused"}, statuses |-> {200, 404, 500},
                      bodies |-> { <<"H", "e", "l", "l", "o">>, <<"h", "i">> },
                      readFails |-> TRUE, latencyMs |-> 3]
    [] host = "b" -> [errors |-> {"timeout"}, statuses |-> {200},
                      bodies |-> { <<"H", "e", "l", "l", "o">> },
                      readFails |-> TRUE, latencyMs |-> 3]
    [] OTHER      -> [errors |-> {"refused"}, statuses |-> {404},
                      bodies |-> { <<"h", "i">> },
                      readFails |-> FALSE, latencyMs |-> 7]

\* The outcomes of one c.client.Get(rawURL): a transport error, or a response.
GetOutcomes(rawURL) ==
  LET net == Network(ParseURL(rawURL).Host) IN
    { [err |-> e, StatusCode |-> 0] : e \in net.errors }
      \cup { [err |-> "", StatusCode |-> s] : s \in net.statuses }

\* The outcomes of io.ReadAll(resp.Body): a read error, or the whole body.
ReadOutcomes(rawURL) ==
  LET net == Network(ParseURL(rawURL).Host) IN
    (IF net.readFails THEN { [err |-> "unexpected EOF", body |-> <<>>] } ELSE {})
      \cup { [err |-> "", body |-> b] : b \in net.bodies }

\* --------------------------------------------------------- command line
\* The values of --timeout (seconds) and --format that are tried.
Timeouts == { 0, 10 }
Formats == { "csv", "xml" }

\* The defaults of --timeout and --format.
DefaultTimeoutSeconds == 10
DefaultFormat == "csv"

\* The checks of rootCmd.PersistentPreRun: the message it prints before
\* os.Exit(1), "" when it lets the run go on.
ConfigError(timeoutSeconds, retries, outputFormat) ==
  IF timeoutSeconds <= 0 THEN "Error: timeout must be positive"
  ELSE IF retries < 0 THEN "Error: retries cannot be negative"
  ELSE IF outputFormat # "csv" /\ outputFormat # "json"
    THEN "Error: output format must be 'csv' or 'json'"
  ELSE ""

\* The hooks main sets on rootCmd: PersistentPreRun in the literal, then
\* PersistentPreRunE by assignment.
RootHooks == [PersistentPreRun |-> TRUE, PersistentPreRunE |-> TRUE]

\* cobra runs one persistent pre-run hook of a command: PersistentPreRunE
\* when it is set, PersistentPreRun only when PersistentPreRunE is not.
CobraPersistentHook(hooks) ==
  IF hooks.PersistentPreRunE THEN "PersistentPreRunE"
  ELSE IF hooks.PersistentPreRun THEN "PersistentPreRun"
  ELSE "none"

NilChecker == [nil |-> TRUE, timeoutMs |-> 0, retries |-> 0]

\* NewURLChecker
NewURLChecker(timeoutMs, retries) ==
  [nil |-> FALSE, timeoutMs |-> timeoutMs, retries |-> retries]

\* ------------------------------------------------------------- checkURL
\* URLResult{}
ZeroResult ==
  [URL |-> "", StatusCode |-> 0, ResponseTime |-> 0, KeywordFound |-> FALSE,
   Error |-> NoError]

NilResp == [nil |-> TRUE, StatusCode |-> 0]

\* The loop with one iteration too few.
LoopCondOffByOne(attempt, retries) == attempt < retries

\* for attempt := 0; attempt <= c.retries; attempt++
LoopCond(attempt, retries) == attempt <= retries

\* The loop without its break.
BreakNever(err) == FALSE

\* if err == nil { break }
BreakOnSuccess(err) == err = ""

\* if attempt < c.retries
ShouldSleep(attempt, retries) == attempt < retries

\* A backoff that doubles instead of growing by one unit.
BackoffMsExponential(attempt) == (2 ^ attempt) * BackoffUnitMs

\* time.Sleep(time.Duration(attempt+1) * 500 * time.Millisecond)
BackoffMs(attempt) == (attempt + 1) * BackoffUnitMs

\* The start timestamp taken anew at each attempt.
SinceAttemptStart(before, took) == took

\* time.Since(start) when a GET returns that took `took`, `before` after
\* start: start is taken once, ahead of the loop.
SinceStart(before, took) == before + took

\* The early return without the error.
ValidationFailedNoError(result, e) == result

\* result.Error = err.Error(); return result
ValidationFailed(result, e) == [result EXCEPT !.Error = e]

\* result.Error = fmt.Sprintf("failed after %d retries: %v", c.retries+1, err)
FailedAfterRetries(result, retries, err) ==
  [result EXCEPT !.Error =
     [msg |-> "failed after %d retries: %v", attempts |-> retries + 1, cause |-> err]]

\* The response time recorded, the status code forgotten.
WithResponseNoStatus(result, resp, elapsed) == [result EXCEPT !.ResponseTime = elapsed]

\* result.StatusCode = resp.StatusCode; result.ResponseTime = time.Since(start)
WithResponse(result, resp, elapsed) ==
  [result EXCEPT !.StatusCode = resp.StatusCode, !.ResponseTime = elapsed]

\* The read failure reported on a fresh result, the response's fields lost.
ReadFailedFreshResult(result, e) ==
  [URL |-> result.URL, StatusCode |-> 0, ResponseTime |-> 0, KeywordFound |-> FALSE,
   Error |-> [msg |-> "error reading body: %v", attempts |-> 0, cause |-> e]]

\* result.Error = fmt.Sprintf("error reading body: %v", err)
ReadFailed(result, e) ==
  [result EXCEPT !.Error = [msg |-> "error reading body: %v", attempts |-> 0, cause |-> e]]

\* A Close written before the normal return only: the return on a read
\* error leaves the body open.
CloseOnNormalReturnOnly(closed, readErr) == IF readErr # "" THEN closed ELSE closed + 1

\* defer resp.Body.Close(): how often the body has been closed when
\* checkURL returns after a response, whichever return it takes.
DeferredClose(closed, readErr) == closed + 1

\* The printer with ", Keyword=NotFound" after every status.
PrintResultNotFoundAnyStatus(r) ==
  IF r.Error # NoError
    THEN [line |-> "%s: Error - %s", URL |-> r.URL, Error |-> r.Error,
          StatusCode |-> 0, ResponseTime |-> 0, keyword |-> ""]
    ELSE [line |-> "%s: Status=%d, ResponseTime=%s", URL |-> r.URL, Error |-> NoError,
          StatusCode |-> r.StatusCode, ResponseTime |-> r.ResponseTime,
          keyword |-> IF r.KeywordFound THEN ", Keyword=Found" ELSE ", Keyword=NotFound"]

\* printResult: the line it prints, as its format, the values put into it
\* and what is appended about the keyword.
PrintResult(r) ==
  IF r.Error # NoError
    THEN [line |-> "%s: Error - %s", URL |-> r.URL, Error |-> r.Error,
          StatusCode |-> 0, ResponseTime |-> 0, keyword |-> ""]
    ELSE [line |-> "%s: Status=%d, ResponseTime=%s", URL |-> r.URL, Error |-> NoError,
          StatusCode |-> r.StatusCode, ResponseTime |-> r.ResponseTime,
          keyword |-> IF r.KeywordFound THEN ", Keyword=Found"
                      ELSE IF r.StatusCode = 200 THEN ", Keyword=NotFound"
                      ELSE ""]

\* A goroutine (or, for `check`, the call in main) that has not started.
IdleTask ==
  [pc |-> "idle", rawURL |-> "", attempt |-> 0, resp |-> NilResp, err |-> "",
   elapsed |-> 0, result |-> ZeroResult, getLog |-> <<>>, sleeps |-> <<>>,
   readLog |-> <<>>, closed |-> 0]

\* A dispatcher that starts a goroutine only when none is running.
LaunchAllowedOneAtATime(running) == running = 0

\* The go statement in the loop of checkURLs starts its goroutine whatever
\* the number of goroutines already running: there is no pool or semaphore.
LaunchAllowed(running) == TRUE

\* The closure reading the loop variable after the loop has ended.
CapturedLoopVar(urls, idx) == urls[Len(urls)]

\* go func(idx int, u string) {...}(i, url): the goroutine of position idx
\* gets its URL as an argument, evaluated at the go statement.
GoroutineURL(urls, idx) == urls[idx]

\* An unbuffered result channel.
ChanCapUnbuffered(n) == 0

\* make(chan URLResult, len(urls)): the capacity of the result channel.
ChanCap(n) == n

\* A Wait that does not wait.
WaitGroupNoWait(counter) == TRUE

\* wg.Wait() returns when the counter is zero.
WaitGroupReady(counter) == counter = 0

\* ---------------------------------------------------------------- state
VARIABLES
  cli,        \* the parsed command line: cmd, urls, keyword, the three flags
  mainPc,     \* where main is
  checker,    \* the *URLChecker of main
  crashed,    \* the process died of a panic
  task,       \* task[i]: the checkURL call for urls[i], with its locals
  i,          \* checkURLs: the next URL to start a goroutine for
  wg,         \* checkURLs: the WaitGroup counter
  resultChan, \* checkURLs: the buffered values of the channel
  chanClosed, \* checkURLs: close(resultChan) was called
  recv,       \* checkURLs: the index of the receive loop
  results,    \* checkURLs: the slice it returns
  output      \* the lines printResult has printed

vars ==
  <<cli, mainPc, checker, crashed, task, i, wg, resultChan, chanClosed, recv, results, output>>

Tasks == 1..MaxUrls

N == Len(cli.urls)

UrlLists == UNION { [1..n -> ListURLs] : n \in 0..MaxUrls }

CommandLines ==
  { [cmd |-> "check", urls |-> <<u>>, keyword |-> k, timeoutSeconds |-> t,
     retries |-> r, outputFormat |-> f] :
      u \in CheckURLs, k \in Keywords, t \in Timeouts, r \in -1..MaxRetries, f \in Formats }
  \cup
  { [cmd |-> "list", urls |-> us, keyword |-> k,
     timeoutSeconds |-> DefaultTimeoutSeconds,
     retries |-> r, outputFormat |-> DefaultFormat] :
      us \in UrlLists, k \in Keywords, r \in -1..MaxListRetries }

Init ==
  /\ cli \in CommandLines
  /\ mainPc = "start"
  /\ checker = NilChecker
  /\ crashed = FALSE
  /\ task = [t \in Tasks |-> IdleTask]
  /\ i = 1
  /\ wg = 0
  /\ resultChan = <<>>
  /\ chanClosed = FALSE
  /\ recv = 1
  /\ results = <<>>
  /\ output = <<>>

Running == ~crashed /\ mainPc \notin {"exited", "finished"}

\* rootCmd.Execute() up to the command's Run: the persistent pre-run hook.
PersistentPreRun ==
  /\ Running /\ mainPc = "start"
  /\ LET hook == CobraPersistentHook(RootHooks) IN
       IF hook = "PersistentPreRunE"
         THEN /\ checker' = NewURLChecker(cli.timeoutSeconds * 1000, cli.retries)
              /\ mainPc' = "run"
         ELSE /\ checker' = checker
              /\ mainPc' = IF hook = "PersistentPreRun"
                              /\ ConfigError(cli.timeoutSeconds, cli.retries, cli.outputFormat) # ""
                            THEN "exited" ELSE "run"
  /\ UNCHANGED <<cli, crashed, task, i, wg, resultChan, chanClosed, recv, results, output>>

\* checkCmd.Run: result := checker.checkURL(args[0], keyword)
RunCheck ==
  /\ Running /\ mainPc = "run" /\ cli.cmd = "check"
  /\ IF checker.nil
       THEN crashed' = TRUE /\ UNCHANGED <<mainPc, task>>
       ELSE /\ task' = [task EXCEPT ![1] = [IdleTask EXCEPT !.pc = "start", !.rawURL = cli.urls[1]]]
            /\ mainPc' = "checking"
            /\ UNCHANGED crashed
  /\ UNCHANGED <<cli, checker, i, wg, resultChan, chanClosed, recv, results, output>>

\* checkCmd.Run: checkURL has returned; printResult(result)
CheckDone ==
  /\ Running /\ mainPc = "checking" /\ task[1].pc = "returned"
  /\ output' = << PrintResult(task[1].result) >>
  /\ mainPc' = "finished"
  /\ UNCHANGED <<cli, checker, crashed, task, i, wg, resultChan, chanClosed, recv, results>>

\* listCmd.Run: checker.checkURLs(urls, keyword), up to the loop.
RunList ==
  /\ Running /\ mainPc = "run" /\ cli.cmd = "list"
  /\ results' = [n \in 1..N |-> ZeroResult]
  /\ resultChan' = <<>>
  /\ i' = 1
  /\ mainPc' = "launch"
  /\ UNCHANGED <<cli, checker, crashed, task, wg, chanClosed, recv, output>>

\* for i, url := range urls { wg.Add(1); go func(idx, u) {...}(i, url) }
Launch ==
  /\ Running /\ mainPc = "launch" /\ i <= N
  /\ LaunchAllowed(Cardinality({ t \in Tasks : task[t].pc \in {"start", "loop", "afterLoop", "returned"} }))
  /\ wg' = wg + 1
  /\ task' = [task EXCEPT ![i] = [IdleTask EXCEPT !.pc = "start", !.rawURL = GoroutineURL(cli.urls, i)]]
  /\ i' = i + 1
  /\ UNCHANGED <<cli, mainPc, checker, crashed, resultChan, chanClosed, recv, results, output>>

\* wg.Wait(); close(resultChan)
WaitAndClose ==
  /\ Running /\ mainPc = "launch" /\ i > N
  /\ WaitGroupReady(wg)
  /\ chanClosed' = TRUE
  /\ recv' = 1
  /\ mainPc' = "collect"
  /\ UNCHANGED <<cli, checker, crashed, task, i, wg, resultChan, results, output>>

\* for i := 0; i < len(urls); i++ { results[i] = <-resultChan }
Collect ==
  /\ Running /\ mainPc = "collect" /\ recv <= N
  /\ \/ /\ resultChan # <<>>
        /\ results' = [results EXCEPT ![recv] = Head(resultChan)]
        /\ resultChan' = Tail(resultChan)
     \/ /\ resultChan = <<>> /\ chanClosed
        /\ results' = [results EXCEPT ![recv] = ZeroResult]
        /\ UNCHANGED resultChan
  /\ recv' = recv + 1
  /\ UNCHANGED <<cli, mainPc, checker, crashed, task, i, wg, chanClosed, output>>

\* return results
ListDone ==
  /\ Running /\ mainPc = "collect" /\ recv > N
  /\ mainPc' = "returned"
  /\ UNCHANGED <<cli, checker, crashed, task, i, wg, resultChan, chanClosed, recv, results, output>>

\* listCmd.Run after checkURLs: printResult for each result in turn.  The
\* --output flag is left at its default "", so no file is written.
PrintResults ==
  /\ Running /\ mainPc = "returned"
  /\ output' = [j \in 1..Len(results) |-> PrintResult(results[j])]
  /\ mainPc' = "finished"
  /\ UNCHANGED <<cli, checker, crashed, task, i, wg, resultChan, chanClosed, recv, results>>

\* ----------------------------------------------------- checkURL, by steps
\* Where the for statement goes with the counter at `attempt`: into the
\* body, or past the loop.
LoopOrExit(attempt, retries) ==
  IF LoopCond(attempt, retries) THEN "loop" ELSE "afterLoop"

\* checkURL from its entry to the head of the retry loop: the validation,
\* and start := time.Now().
Validate(t) ==
  /\ Running /\ task[t].pc = "start"
  /\ LET me == task[t]
         result == [ZeroResult EXCEPT !.URL = me.rawURL]
         e == ValidateURL(me.rawURL)
     IN task' = [task EXCEPT ![t] =
          IF e # NoError
            THEN [me EXCEPT !.result = ValidationFailed(result, e), !.pc = "returned"]
            ELSE [me EXCEPT !.result = result, !.resp = NilResp, !.err = "",
                            !.elapsed = 0, !.attempt = 0,
                            !.pc = LoopOrExit(0, checker.retries)]]
  /\ UNCHANGED <<cli, mainPc, checker, crashed, i, wg, resultChan, chanClosed, recv, results, output>>

\* One iteration of the retry loop: the GET, the break on success, the
\* backoff sleep, and attempt++.
Attempt(t) ==
  /\ Running /\ task[t].pc = "loop"
  /\ \E out \in GetOutcomes(task[t].rawURL) :
       LET me == task[t]
           latency == Network(ParseURL(me.rawURL).Host).latencyMs
           got == [me EXCEPT !.resp = IF out.err = "" THEN [nil |-> FALSE, StatusCode |-> out.StatusCode]
                                                     ELSE NilResp,
                             !.err = out.err,
                             !.elapsed = SinceStart(@, latency),
                             !.getLog = Append(@, out)]
       IN task' = [task EXCEPT ![t] =
            IF BreakOnSuccess(got.err)
              THEN [got EXCEPT !.pc = "afterLoop"]
              ELSE LET slept ==
                         IF ShouldSleep(got.attempt, checker.retries)
                           THEN [got EXCEPT !.sleeps = Append(@, [after |-> got.attempt,
                                                                  ms |-> BackoffMs(got.attempt)]),
                                            !.elapsed = @ + BackoffMs(got.attempt)]
                           ELSE got
                   IN [slept EXCEPT !.attempt = @ + 1,
                                    !.pc = LoopOrExit(got.attempt + 1, checker.retries)]]
  /\ UNCHANGED <<cli, mainPc, checker, crashed, i, wg, resultChan, chanClosed, recv, results, output>>

\* checkURL after the loop, when the last GET failed.
GiveUp(t) ==
  /\ Running /\ task[t].pc = "afterLoop" /\ task[t].err # ""
  /\ task' = [task EXCEPT ![t] =
       [@ EXCEPT !.result = FailedAfterRetries(@, checker.retries, task[t].err),
                 !.pc = "returned"]]
  /\ UNCHANGED <<cli, mainPc, checker, crashed, i, wg, resultChan, chanClosed, recv, results, output>>

\* checkURL after the loop with err == nil and resp == nil: resp.Body of
\* `defer resp.Body.Close()` dereferences nil, and the panic ends the process.
NilResponse(t) ==
  /\ Running /\ task[t].pc = "afterLoop" /\ task[t].err = "" /\ task[t].resp.nil
  /\ task' = [task EXCEPT ![t] = [@ EXCEPT !.pc = "panicked"]]
  /\ crashed' = TRUE
  /\ UNCHANGED <<cli, mainPc, checker, i, wg, resultChan, chanClosed, recv, results, output>>

\* checkURL after the loop with a response: the status code, the response
\* time, the keyword search in the body, and the deferred resp.Body.Close().
UseResponse(t) ==
  /\ Running /\ task[t].pc = "afterLoop" /\ task[t].err = "" /\ ~task[t].resp.nil
  /\ LET me == task[t]
         result == WithResponse(me.result, me.resp, me.elapsed)
     IN IF cli.keyword # <<>>
          THEN \E rd \in ReadOutcomes(me.rawURL) :
                 task' = [task EXCEPT ![t] =
                   [me EXCEPT !.result =
                                IF rd.err # ""
                                  THEN ReadFailed(result, rd.err)
                                  ELSE [result EXCEPT !.KeywordFound = KeywordMatch(rd.body, cli.keyword)],
                              !.readLog = Append(@, rd),
                              !.closed = DeferredClose(@, rd.err),
                              !.pc = "returned"]]
          ELSE task' = [task EXCEPT ![t] =
                 [me EXCEPT !.result = result, !.closed = DeferredClose(@, ""), !.pc = "returned"]]
  /\ UNCHANGED <<cli, mainPc, checker, crashed, i, wg, resultChan, chanClosed, recv, results, output>>

\* The goroutine of checkURLs, after checkURL returned:
\* resultChan <- result, and the deferred wg.Done().  The channel buffers
\* len(urls) values; a send on a closed channel panics.
Send(t) ==
  /\ Running /\ mainPc \in {"launch", "collect"} /\ task[t].pc = "returned"
  /\ IF chanClosed
       THEN /\ crashed' = TRUE
            /\ task' = [task EXCEPT ![t] = [@ EXCEPT !.pc = "panicked"]]
            /\ UNCHANGED <<resultChan, wg>>
       ELSE /\ Len(resultChan) < ChanCap(N)
            /\ resultChan' = Append(resultChan, task[t].result)
            /\ wg' = wg - 1
            /\ task' = [task EXCEPT ![t] = [@ EXCEPT !.pc = "done"]]
            /\ UNCHANGED crashed
  /\ UNCHANGED <<cli, mainPc, checker, i, chanClosed, recv, results, output>>

Next ==
  \/ PersistentPreRun
  \/ RunCheck
  \/ CheckDone
  \/ RunList
  \/ Launch
  \/ WaitAndClose
  \/ Collect
  \/ ListDone
  \/ PrintResults
  \/ \E t \in Tasks : Validate(t)
  \/ \E t \in Tasks : Attempt(t)
  \/ \E t \in Tasks : GiveUp(t)
  \/ \E t \in Tasks : NilResponse(t)
  \/ \E t \in Tasks : UseResponse(t)
  \/ \E t \in Tasks : Send(t)

Spec == Init /\ [][Next]_vars

\* The same program under a scheduler that keeps running something as long
\* as something can run: the Go runtime never idles while a goroutine is
\* runnable.
FairSpec == Spec /\ WF_vars(Next)

\* =============================================================== claims
Returned(t) == task[t].pc \in {"returned", "done"}

\* The GETs of task t so far all failed / the last one obtained a response.
AllFailed(t) == \A j \in 1..Len(task[t].getLog) : task[t].getLog[j].err # ""
GotResponse(t) ==
  /\ task[t].getLog # <<>>
  /\ task[t].getLog[Len(task[t].getLog)].err = ""
LastGet(t) == task[t].getLog[Len(task[t].getLog)]

\* The URLs of the model that validateURL accepts.
ValidURLs == { "http://a", "https://b", "https://c", "HTTP://a" }

RECURSIVE TotalMs(_)
TotalMs(sl) == IF sl = <<>> THEN 0 ELSE sl[1].ms + TotalMs(Tail(sl))

Min(a, b) == IF a < b THEN a ELSE b

\* C1: checkURLs returns exactly N results with results[i].URL == urls[i]
\* for every i, whatever the order in which the checks complete.
C1_ResultsInInputOrder ==
  mainPc = "returned" =>
    /\ Len(results) = N
    /\ \A j \in 1..N : results[j].URL = cli.urls[j]

\* C2: for a valid URL whose every GET fails, checkURL with retries R >= 0
\* issues exactly R+1 GETs and returns StatusCode 0 and an Error that
\* reports R+1 and the last underlying error.
C2_ExhaustedRetries ==
  \A t \in Tasks :
    (task[t].rawURL \in ValidURLs /\ checker.retries >= 0 /\ AllFailed(t)) =>
      /\ Len(task[t].getLog) <= checker.retries + 1
      /\ Returned(t) =>
           /\ Len(task[t].getLog) = checker.retries + 1
           /\ task[t].result.StatusCode = 0
           /\ task[t].result.Error.msg = "failed after %d retries: %v"
           /\ task[t].result.Error.attempts = checker.retries + 1
           /\ task[t].result.Error.cause = LastGet(t).err

\* C2 happens: three GETs failed, the first and the last with different
\* errors, and the result reports 3 and the last one.
C2_Witness ==
  \E t \in Tasks :
    /\ Returned(t) /\ checker.retries = 2 /\ AllFailed(t)
    /\ Len(task[t].getLog) = 3
    /\ task[t].getLog[1].err # task[t].getLog[3].err
    /\ task[t].result.Error.attempts = 3
    /\ task[t].result.Error.cause = task[t].getLog[3].err

\* C3: checkURL stops at the first response: when attempt k obtains it,
\* exactly k+1 GETs were issued, k <= retries, no GET and no sleep follows
\* it, and the result has its status code and, unless the body read fails,
\* an empty Error, whatever the status.
C3_StopAtFirstSuccess ==
  \A t \in Tasks :
    /\ \A j \in 1..(Len(task[t].getLog) - 1) : task[t].getLog[j].err # ""
    /\ GotResponse(t) =>
         /\ Len(task[t].getLog) = task[t].attempt + 1
         /\ task[t].attempt <= checker.retries
         /\ Len(task[t].sleeps) = task[t].attempt
         /\ \A j \in 1..Len(task[t].sleeps) : task[t].sleeps[j].after < task[t].attempt
         /\ Returned(t) =>
              /\ task[t].result.StatusCode = LastGet(t).StatusCode
              /\ (task[t].readLog = <<>> \/ task[t].readLog[1].err = "")
                    => task[t].result.Error = NoError

\* C3 happens: the third GET obtained a 500, after two failures and two
\* sleeps, and the result carries 500 with no error.
C3_Witness ==
  \E t \in Tasks :
    /\ Returned(t) /\ checker.retries = 3
    /\ Len(task[t].getLog) = 3 /\ LastGet(t).StatusCode = 500
    /\ Len(task[t].sleeps) = 2
    /\ task[t].result.StatusCode = 500 /\ task[t].result.Error = NoError

\* C4: after the failed attempt a the checker sleeps (a+1)*500 ms exactly
\* when a < retries; nothing is slept after the last attempt or after a
\* response; with retries 0 one failure is reported as 1 attempt with no
\* sleep; when all R+1 attempts fail the sleeps add up to 500*R*(R+1)/2 ms.
C4_LinearBackoff ==
  \A t \in Tasks :
    LET failed == Cardinality({ j \in 1..Len(task[t].getLog) : task[t].getLog[j].err # "" })
        R == checker.retries
    IN /\ \A j \in 1..Len(task[t].sleeps) :
            task[t].sleeps[j] = [after |-> j - 1, ms |-> j * 500]
       /\ Len(task[t].sleeps) = Min(failed, IF R > 0 THEN R ELSE 0)
       /\ (Returned(t) /\ R >= 0 /\ task[t].getLog # <<>> /\ AllFailed(t)) =>
            /\ 2 * TotalMs(task[t].sleeps) = 500 * R * (R + 1)
            /\ R = 0 => task[t].sleeps = <<>> /\ task[t].result.Error.attempts = 1

\* C4 happens: four failed attempts with retries 3, and sleeps of 500, 1000
\* and 1500 ms between them.
C4_Witness ==
  \E t \in Tasks :
    /\ Returned(t) /\ checker.retries = 3 /\ AllFailed(t)
    /\ Len(task[t].getLog) = 4
    /\ Len(task[t].sleeps) = 3 /\ task[t].sleeps[3].ms = 1500
    /\ TotalMs(task[t].sleeps) = 3000

\* C5: with timeout <= 0, retries < 0 or a format other than csv/json the
\* run ends with an error before the checker is used: no checkURL or
\* checkURLs call and no GET happens in such a run.
C5_ConfigGatesChecking ==
  (cli.timeoutSeconds <= 0 \/ cli.retries < 0 \/ cli.outputFormat \notin {"csv", "json"}) =>
    /\ mainPc \in {"start", "exited"}
    /\ \A t \in Tasks : task[t].pc = "idle" /\ task[t].getLog = <<>>

\* C6: checkURLs returns only after each of its N goroutines has finished
\* and delivered its result: at the return none is in flight, and every
\* slot of the slice holds the result of a check, not a zero value.
C6_JoinBarrier ==
  mainPc \in {"collect", "returned"} =>
    /\ wg = 0
    /\ \A t \in 1..N : task[t].pc = "done"
    /\ mainPc = "returned" =>
         /\ resultChan = <<>>
         /\ Len(results) = N
         /\ \A j \in 1..N :
              /\ results[j] # ZeroResult
              /\ \E t \in 1..N : results[j] = task[t].result

\* C6 happens: checkURLs returned two results, one of a check that failed
\* and one of a check that obtained a response.
C6_Witness ==
  /\ mainPc = "returned" /\ N = 2
  /\ \E j, k \in 1..N : results[j].Error # NoError /\ results[k].StatusCode > 0

\* C7: a URL that ends in a validation failure, exhausted retries or a
\* body-read failure stops no other URL: every other URL is still checked
\* to completion, and the batch returns one result per input URL, with the
\* failure only in the result of the URL that failed.
C7_FailuresIsolated ==
  \A t \in Tasks :
    (Returned(t) /\ task[t].result.Error # NoError) =>
      /\ ~crashed
      /\ \A u \in Tasks \ {t} : task[u].pc # "panicked"
      /\ mainPc = "returned" =>
           /\ Len(results) = N
           /\ \A u \in 1..N : \E j \in 1..N : results[j] = task[u].result
           /\ \A j \in 1..N :
                results[j].Error # NoError =>
                  \E u \in 1..N : /\ results[j] = task[u].result
                                  /\ results[j].URL = cli.urls[u]

\* C8: a result of checkURL has a non-empty Error or a positive StatusCode,
\* and both only when the body read failed after a response; never an empty
\* Error with StatusCode 0; a validation or transport failure has StatusCode 0.
C8_ErrorXorStatus ==
  \A t \in Tasks :
    Returned(t) =>
      LET r == task[t].result
          readFailed == task[t].readLog # <<>> /\ task[t].readLog[1].err # ""
      IN /\ r.Error # NoError \/ r.StatusCode > 0
         /\ (r.Error # NoError /\ r.StatusCode > 0) <=> (GotResponse(t) /\ readFailed)
         /\ ~GotResponse(t) => r.StatusCode = 0

\* C8 happens: a body read failed after a 200, and the result has the
\* error and the status code.
C8_Witness ==
  \E t \in Tasks :
    /\ Returned(t) /\ task[t].result.StatusCode = 200
    /\ task[t].result.Error.msg = "error reading body: %v"
    /\ task[t].readLog # <<>>

\* Whether body contains keyword when letter case is ignored.
FoldedMatch(body, keyword) ==
  \E k \in 0..(Len(body) - Len(keyword)) :
    \A j \in 1..Len(keyword) : LowerRune(body[k + j]) = LowerRune(keyword[j])

\* C9: KeywordFound is true only if a keyword was given, a response was
\* obtained and the whole body was read; and then it is true exactly when
\* the lower-cased body contains the lower-cased keyword, with Error empty.
C9_KeywordFound ==
  \A t \in Tasks :
    Returned(t) =>
      LET r == task[t].result
          readOk == task[t].readLog # <<>> /\ task[t].readLog[1].err = ""
      IN /\ r.KeywordFound => (cli.keyword # <<>> /\ GotResponse(t) /\ readOk)
         /\ (cli.keyword # <<>> /\ GotResponse(t)) => task[t].readLog # <<>>
         /\ readOk =>
              /\ r.KeywordFound = FoldedMatch(task[t].readLog[1].body, cli.keyword)
              /\ r.Error = NoError

\* C9 happens: the keyword "El" is found in the body "Hello".
C9_Witness ==
  \E t \in Tasks :
    /\ Returned(t) /\ task[t].result.KeywordFound
    /\ cli.keyword = <<"E", "l">>
    /\ task[t].readLog = << [err |-> "", body |-> <<"H", "e", "l", "l", "o">>] >>

\* The URLs of the model that validateURL rejects, with its message.
RejectedURLs ==
  [u \in {"", "://bad", "ftp://host", "ftp://", "http://", "a.com"} |->
     CASE u = "" -> "URL is empty"
       [] u = "://bad" -> "invalid URL: %v"
       [] u \in {"ftp://host", "ftp://", "a.com"} -> "URL must use http or https scheme"
       [] OTHER -> "URL must have a valid host"]

\* C10: when validateURL rejects the URL, checkURL returns at once with the
\* validator's message as Error, StatusCode 0, ResponseTime 0 and
\* KeywordFound false, with no GET, no retry and no sleep, whatever retries is.
C10_ValidationFailure ==
  \A t \in Tasks :
    (task[t].rawURL \in DOMAIN RejectedURLs /\ task[t].pc \notin {"idle", "start"}) =>
      /\ Returned(t)
      /\ task[t].result.URL = task[t].rawURL
      /\ task[t].result.Error.msg = RejectedURLs[task[t].rawURL]
      /\ task[t].result.StatusCode = 0
      /\ task[t].result.ResponseTime = 0
      /\ task[t].result.KeywordFound = FALSE
      /\ task[t].getLog = <<>> /\ task[t].sleeps = <<>> /\ task[t].attempt = 0
      /\ task[t].closed = 0

\* C10 happens: "ftp://host" was rejected with retries 3 and a keyword.
C10_Witness ==
  \E t \in Tasks :
    /\ Returned(t) /\ task[t].rawURL = "ftp://host"
    /\ checker.retries = 3 /\ cli.keyword # <<>>
    /\ task[t].result.Error.msg = "URL must use http or https scheme"

\* The time a check has taken when its last GET returns: its GETs and the
\* sleeps between them.
TimeSpent(t) ==
  Len(task[t].getLog) * Network(ParseURL(task[t].rawURL).Host).latencyMs
    + TotalMs(task[t].sleeps)

\* C11: when a keyword is given and reading the body fails after a
\* response, checkURL returns a partial result: Error is the read-failure
\* message, StatusCode and ResponseTime keep the values recorded from the
\* response, and KeywordFound is false.
C11_PartialResult ==
  \A t \in Tasks :
    (Returned(t) /\ task[t].readLog # <<>> /\ task[t].readLog[1].err # "") =>
      /\ cli.keyword # <<>>
      /\ GotResponse(t)
      /\ task[t].result.Error.msg = "error reading body: %v"
      /\ task[t].result.Error.cause = task[t].readLog[1].err
      /\ task[t].result.StatusCode = LastGet(t).StatusCode
      /\ task[t].result.StatusCode > 0
      /\ task[t].result.ResponseTime = TimeSpent(t)
      /\ task[t].result.ResponseTime > 0
      /\ task[t].result.KeywordFound = FALSE
      /\ task[t].result.URL = task[t].rawURL

\* C11 happens: the body read failed after the second GET obtained a 404.
C11_Witness ==
  \E t \in Tasks :
    /\ Returned(t) /\ task[t].readLog # <<>> /\ task[t].readLog[1].err # ""
    /\ Len(task[t].getLog) = 2
    /\ task[t].result.StatusCode = 404
    /\ task[t].result.ResponseTime > 500

\* C12: every response checkURL obtains is closed exactly once before it
\* returns, on each return after a response (with or without keyword, and
\* after a body-read failure); nothing is closed when no response was
\* obtained, and nothing is closed twice.
C12_BodyClosedOnce ==
  \A t \in Tasks :
    /\ task[t].closed <= 1
    /\ ~Returned(t) => task[t].closed = 0
    /\ Returned(t) => task[t].closed = (IF GotResponse(t) THEN 1 ELSE 0)

\* C12 happens: a check returned after a body-read failure with the body
\* closed once.
C12_Witness ==
  \E t \in Tasks :
    /\ Returned(t) /\ GotResponse(t)
    /\ task[t].readLog # <<>> /\ task[t].readLog[1].err # ""
    /\ task[t].closed = 1

\* The URL strings as they are written: whether the text is a URL at all,
\* and the scheme and the host that stand in it.
Written(u) ==
  CASE u = "://bad"     -> [isURL |-> FALSE, scheme |-> "",      host |-> ""]
    [] u = "ftp://host" -> [isURL |-> TRUE,  scheme |-> "ftp",   host |-> "host"]
    [] u = "ftp://"     -> [isURL |-> TRUE,  scheme |-> "ftp",   host |-> ""]
    [] u = "http://"    -> [isURL |-> TRUE,  scheme |-> "http",  host |-> ""]
    [] u = "http://a"   -> [isURL |-> TRUE,  scheme |-> "http",  host |-> "a"]
    [] u = "https://b"  -> [isURL |-> TRUE,  scheme |-> "https", host |-> "b"]
    [] u = "https://c"  -> [isURL |-> TRUE,  scheme |-> "https", host |-> "c"]
    [] u = "HTTP://a"   -> [isURL |-> TRUE,  scheme |-> "HTTP",  host |-> "a"]
    [] OTHER            -> [isURL |-> TRUE,  scheme |-> "",      host |-> ""]

\* A scheme with its letters in lower case.
FoldScheme(scheme) == IF scheme = "HTTP" THEN "http" ELSE scheme

\* The verdict the fixed precedence gives a URL whose scheme is taken to
\* be `scheme`: the message of the first check that fails, "" when none does.
PrecedenceVerdict(u, scheme) ==
  IF u = "" THEN "URL is empty"
  ELSE IF ~Written(u).isURL THEN "invalid URL: %v"
  ELSE IF scheme \notin {"http", "https"} THEN "URL must use http or https scheme"
  ELSE IF Written(u).host = "" THEN "URL must have a valid host"
  ELSE ""

ValidatorMessages ==
  { "URL is empty", "invalid URL: %v", "URL must use http or https scheme",
    "URL must have a valid host" }

\* What validateURL said of the URL of task t, as checkURL recorded it.
Verdict(t) ==
  IF task[t].result.Error.msg \in ValidatorMessages THEN task[t].result.Error.msg ELSE ""

Validated(t) == task[t].pc \notin {"idle", "start"}

\* C13 as stated: the empty string fails as EmptyURL, else an unparsable
\* string as MalformedURL, else a scheme other than exactly http or https
\* (as written in the URL) as UnsupportedScheme, else an empty host as
\* MissingHost, and every other input succeeds.
C13_ExactSchemeAsWritten ==
  \A t \in Tasks :
    Validated(t) => Verdict(t) = PrecedenceVerdict(task[t].rawURL, Written(task[t].rawURL).scheme)

\* C13 amended: the same precedence, with the scheme compared after
\* url.Parse has lower-cased it, so that "HTTP://a" succeeds; a rejected
\* URL causes no GET, and validation itself issues none.
C13_ValidatorPrecedence ==
  \A t \in Tasks :
    Validated(t) =>
      /\ Verdict(t) =
           PrecedenceVerdict(task[t].rawURL, FoldScheme(Written(task[t].rawURL).scheme))
      /\ Verdict(t) # "" => task[t].getLog = <<>> /\ Returned(t)
      /\ (task[t].pc = "loop" /\ task[t].attempt = 0) => task[t].getLog = <<>>

\* C13 happens: "ftp://", with a wrong scheme and an empty host, was
\* rejected for its scheme.
C13_Witness ==
  \E t \in Tasks :
    /\ Returned(t) /\ task[t].rawURL = "ftp://"
    /\ task[t].result.Error.msg = "URL must use http or https scheme"

\* The results printResult was called with, in the order of the calls.
Printed == IF cli.cmd = "check" THEN << task[1].result >> ELSE results

\* C14: printResult prints the error line exactly when Error is non-empty
\* (a partial result with a status code prints only the error); otherwise
\* the status line, with ", Keyword=Found" when KeywordFound is true, with
\* ", Keyword=NotFound" only when the status is exactly 200 and no keyword
\* was found, and with nothing appended for any other status.
C14_PrintResult ==
  mainPc = "finished" =>
    /\ Len(output) = Len(Printed)
    /\ \A j \in 1..Len(output) :
         LET r == Printed[j]
             o == output[j]
         IN /\ o.URL = r.URL
            /\ (o.line = "%s: Error - %s") <=> (r.Error # NoError)
            /\ o.line = "%s: Error - %s" =>
                 o.Error = r.Error /\ o.keyword = "" /\ o.StatusCode = 0
            /\ o.line # "%s: Error - %s" =>
                 /\ o.line = "%s: Status=%d, ResponseTime=%s"
                 /\ o.StatusCode = r.StatusCode /\ o.ResponseTime = r.ResponseTime
                 /\ (o.keyword = ", Keyword=Found") <=> r.KeywordFound
                 /\ (o.keyword = ", Keyword=NotFound") <=>
                      (~r.KeywordFound /\ r.StatusCode = 200)
                 /\ (~r.KeywordFound /\ r.StatusCode # 200) => o.keyword = ""

\* C14 happens: of two results printed, a partial one (status 200 and a
\* read error) gave the error line, and a 404 with no keyword found gave
\* the status line with nothing appended.
C14_Witness ==
  /\ mainPc = "finished" /\ Len(output) = 2
  /\ \E j, k \in 1..2 :
       /\ results[j].StatusCode = 200 /\ results[j].Error # NoError
       /\ output[j].line = "%s: Error - %s"
       /\ results[k].StatusCode = 404 /\ cli.keyword # <<>>
       /\ output[k].line = "%s: Status=%d, ResponseTime=%s" /\ output[k].keyword = ""

InFlight(t) == task[t].pc \in {"start", "loop", "afterLoop", "returned"}

\* C15: checkURLs starts all N checks eagerly, with no cap: as long as a
\* URL is left the next goroutine can start whatever the others are doing,
\* and every goroutine has been started when the dispatcher waits.
C15_EagerLaunch ==
  /\ (mainPc = "launch" /\ i <= N /\ ~crashed) => ENABLED Launch
  /\ (mainPc = "launch" /\ i > N) => \A t \in 1..N : task[t].pc # "idle"
  /\ \A t \in Tasks : t > N => task[t].pc = "idle"

\* C15 happens: the dispatcher waits while all of its checks, as many as
\* the list can hold, are in their retry loops at once.
C15_Witness ==
  /\ mainPc = "launch" /\ i > N /\ N = MaxUrls
  /\ \A t \in 1..N : task[t].pc = "loop" /\ task[t].getLog # <<>>

\* C16: during a batch nothing is written by two parties at once: the
\* results slice is written only by the dispatcher, when it is made and
\* then after all goroutines have finished; a goroutine changes only its
\* own locals and hands its result over through the channel; the checker
\* (client, timeout, retries) and the keyword do not change between the
\* dispatch and the return.
C16_NoSharedWrites ==
  [][ /\ results' # results =>
           \/ mainPc = "run"
           \/ mainPc = "collect" /\ \A t \in 1..N : task[t].pc = "done"
      /\ mainPc \in {"launch", "collect"} => checker' = checker /\ cli' = cli
      /\ \A t \in Tasks :
           task'[t] # task[t] =>
             /\ \A u \in Tasks \ {t} : task'[u] = task[u]
             /\ results' = results /\ checker' = checker /\ cli' = cli
             /\ resultChan' # resultChan =>
                  /\ task[t].pc = "returned" /\ task'[t].pc = "done"
                  /\ resultChan' = Append(resultChan, task[t].result)
    ]_vars

\* C16 happens: the dispatcher has written the first slot of the slice,
\* with both goroutines finished and the second result still in the channel.
C16_Witness ==
  /\ mainPc = "collect" /\ N = 2 /\ recv = 2
  /\ results[1] # ZeroResult /\ results[2] = ZeroResult
  /\ Len(resultChan) = 1
  /\ \A t \in 1..N : task[t].pc = "done"

\* C17: ResponseTime is 0 when no response was obtained (validation
\* failure, or all attempts failed); when attempt k obtains the response it
\* is the time since the one start timestamp taken before the first
\* attempt, so it spans the k failed attempts and their sleeps and is at
\* least 500*k*(k+1)/2 ms.
C17_ResponseTime ==
  \A t \in Tasks :
    Returned(t) =>
      LET k == Len(task[t].getLog) - 1
          rt == task[t].result.ResponseTime
      IN /\ ~GotResponse(t) => rt = 0
         /\ GotResponse(t) =>
              /\ rt = TimeSpent(t)
              /\ Len(task[t].sleeps) = k
              /\ rt > TotalMs(task[t].sleeps)
              /\ 2 * rt >= 500 * k * (k + 1)

\* C17 happens: the response came at the third attempt, and the response
\* time spans the sleeps of 500 and 1000 ms.
C17_Witness ==
  \E t \in Tasks :
    /\ Returned(t) /\ GotResponse(t)
    /\ Len(task[t].getLog) = 3
    /\ task[t].result.ResponseTime >= 1500

\* C17 happens as well: three attempts failed and the response time is 0.
C17_WitnessNoResponse ==
  \E t \in Tasks :
    /\ Returned(t) /\ AllFailed(t) /\ Len(task[t].getLog) = 3
    /\ task[t].result.ResponseTime = 0

\* checkURLs is over: it returned to listCmd.Run, or the process died.
ChecksOver == crashed \/ mainPc \in {"returned", "finished", "exited"}

\* C18, the safety half: while no goroutine has panicked, a goroutine that
\* has its result finds room in the channel and the channel open; once
\* main receives, the channel is closed and holds exactly the results not
\* yet received, so every receive takes a sent result; with no URL nothing
\* is launched and the list returned is empty; and the program is never
\* stuck before it ends.
C18_NoBlocking ==
  /\ ~crashed /\ cli.cmd = "list" =>
       /\ \A t \in Tasks :
            task[t].pc = "returned" => ~chanClosed /\ Len(resultChan) < N
       /\ mainPc = "collect" =>
            /\ chanClosed
            /\ Len(resultChan) = N - (recv - 1)
            /\ recv <= N => resultChan # <<>>
       /\ N = 0 /\ mainPc \in {"collect", "returned", "finished"} =>
            /\ results = <<>>
            /\ \A t \in Tasks : task[t] = IdleTask
  /\ Running => ENABLED Next

\* C18: checkURLs never deadlocks and, every step of every check being
\* finite, always comes to its end: no send blocks, no receive blocks or
\* reads a closed empty channel, and an empty list returns an empty list.
C18_Terminates == []C18_NoBlocking /\ (cli.cmd = "list" ~> ChecksOver)

\* C18 happens: two results sit in the full channel of capacity two when
\* main starts to receive.
C18_Witness ==
  /\ ~crashed /\ cli.cmd = "list" /\ mainPc = "collect"
  /\ N = 2 /\ recv = 1 /\ Len(resultChan) = 2

\* C18 happens as well: the empty list went through checkURLs.
C18_WitnessEmpty ==
  /\ cli.cmd = "list" /\ N = 0 /\ mainPc = "returned" /\ results = <<>>

\* The number of positions of the sequence sq that hold x.
Count(sq, x) == Cardinality({ j \in 1..Len(sq) : sq[j] = x })

\* The bijections of 1..n.
Perms(n) == { p \in [1..n -> 1..n] : \A a, b \in 1..n : p[a] = p[b] => a = b }

\* C19: when checkURLs returns, every input position has been checked
\* once, the returned list is a permutation of the per-URL results, and the
\* result URLs are the input URLs as a multiset, duplicates included.
C19_PermutationOfResults ==
  ~crashed /\ cli.cmd = "list" /\ mainPc = "returned" =>
    /\ Len(results) = N
    /\ \A t \in 1..N :
         /\ task[t].pc = "done"
         /\ task[t].result.URL = cli.urls[t]
    /\ \A t \in Tasks \ (1..N) : task[t] = IdleTask
    /\ \E p \in Perms(N) : \A j \in 1..N : results[j] = task[p[j]].result
    /\ \A u \in ListURLs :
         Count([j \in 1..N |-> results[j].URL], u) = Count(cli.urls, u)

\* C19 happens: two different URLs came back in the other order.
C19_Witness ==
  /\ ~crashed /\ cli.cmd = "list" /\ mainPc = "returned" /\ N = 2
  /\ cli.urls[1] # cli.urls[2]
  /\ results[1].URL = cli.urls[2] /\ results[2].URL = cli.urls[1]

\* C19 happens as well: the same URL twice in the input, twice in the
\* results, with two different outcomes.
C19_WitnessDuplicate ==
  /\ ~crashed /\ cli.cmd = "list" /\ mainPc = "returned" /\ N = 2
  /\ cli.urls[1] = cli.urls[2]
  /\ results[1].URL = results[2].URL
  /\ results[1] # results[2]

\* C20: for every retries value the command line lets through, the loop
\* has done at least one GET when its outcome is examined, a nil error
\* after the loop comes with a response, and checkURL returns a result
\* instead of dereferencing a nil response and ending the process.
C20_NoNilDereference ==
  \A t \in Tasks :
    /\ task[t].pc = "afterLoop" =>
         /\ task[t].getLog # <<>>
         /\ task[t].err = "" => ~task[t].resp.nil
    /\ task[t].pc # "panicked"

====
